---- MODULE Spec2Model ----
(***************************************************************************)
(* Model of autarco-scraper (src/main.rs): the update loop that logs in    *)
(* to My Autarco and polls the energy and power endpoints, the mutex       *)
(* guarded STATUS cell, the status() route that reads it, and main(),      *)
(* which runs the Rocket server and the updater task under one select!.    *)
(*                                                                         *)
(* Every await in the source is a suspension point and therefore a state   *)
(* of its own; code between two awaits runs as one step, except the        *)
(* critical sections on STATUS, which are split field by field so that     *)
(* the mutual exclusion of the mutex is what keeps copies whole.           *)
(***************************************************************************)
EXTENDS Integers, FiniteSets, Sequences, TLC

\* ---------------------------------------------------------------- bounds
\* Telemetry values (u32 in the source) range over 0..MaxValue.
MaxValue == 1
\* Number of status() requests that may be in flight at once.
NumReaders == 2

\* ------------------------------------------------------------- constants
POLL_INTERVAL == 300
UNAUTHORIZED == 401

\* Wall-clock samples (seconds since the epoch) a tick may read.  The clock
\* is SystemTime, which is not monotonic: any sample may follow any other.
\* 0 is also what unwrap_or_default() yields for a clock before the epoch.
Times == {0, 10, 300, 610}

Values == 0..MaxValue
Readers == 1..NumReaders

\* ------------------------------------------------------------- the state
VARIABLES
    pc,            \* position of update_loop
    client,        \* the reqwest client with its cookie store (the session)
    init_login,    \* what the remote answered to the login at start
    last_updated,  \* update_loop's local last_updated (the poll clock)
    timestamp,     \* update_loop's local timestamp of the current tick
    api_energy,    \* update's local api_energy.pv_to_date, -1 when not fetched
    api_power,     \* update's local api_power.pv_now, -1 when not fetched
    status,        \* update_loop's local status: the last value update returned
    last_iter,     \* how the most recent loop iteration ended
    STATUS,        \* the global Mutex<Option<Status>> contents
    committed,     \* the last value completely stored into STATUS
    lock,          \* holder of the STATUS mutex: 0 free, -1 updater, r reader
    rpc,           \* position of each status() request
    buf,           \* the copy each status() request is building
    main_pc,       \* position of main
    main_result,   \* what main returned
    branch,        \* the select! branch main took
    server,        \* the rocket.launch() future
    notified       \* whether shutdown.notify() was called

pollerVars == <<pc, client, init_login, last_updated, timestamp, api_energy,
                api_power, status, last_iter>>
cacheVars == <<STATUS, committed, lock>>
readerVars == <<rpc, buf>>
mainVars == <<main_pc, main_result, branch, server, notified>>
vars == <<pollerVars, cacheVars, readerVars, mainVars>>

\* Option<Status>: None is the record with some = FALSE.
NoStatus == [some |-> FALSE, current_w |-> 0, total_kwh |-> 0, last_updated |-> 0]

\* Status { current_w: api_power.pv_now, total_kwh: api_energy.pv_to_date, last_updated }
MkStatus(pv_now, pv_to_date, lu) ==
    [some |-> TRUE, current_w |-> pv_now, total_kwh |-> pv_to_date, last_updated |-> lu]

\* What the remote may answer to a GET of an API endpoint.
\*   ok        : 2xx with a JSON body that deserializes, carrying the value
\*   transport : send() failed (network error, timeout)
\*   http      : a response with an error status code
\*   malformed : 2xx whose body does not deserialize into unsigned fields
\*               (unparseable, or a negative number for a u32)
Responses ==
    [kind : {"ok"}, code : {200}, value : Values]
      \cup [kind : {"transport", "malformed"}, code : {0}, value : {0}]
      \cup [kind : {"http"}, code : {UNAUTHORIZED, 500}, value : {0}]

\* reqwest::Error::status(): only an error made by error_for_status has one.
ErrStatus(resp) == IF resp.kind = "http" THEN resp.code ELSE 0

\* What the remote may answer to the login POST.
LoginResponses == {"ok", "rejected", "transport"}

\* login(): only a failure of send() is an error; the response status is
\* not inspected.
LoginResult(resp) == IF resp = "transport" THEN "Err" ELSE "Ok"

\* u64 subtraction timestamp - last_updated compared with POLL_INTERVAL when
\* the subtraction wraps (a release build): the wrapped difference is
\* 2^64 - (last_updated - timestamp), which is below POLL_INTERVAL only if
\* last_updated - timestamp > 2^64 - POLL_INTERVAL, impossible for the
\* samples in Times.
WrappedLess(a, b, k) == IF a >= b THEN a - b < k ELSE FALSE

Suspended == {"load_config", "login", "sleep", "update_energy", "update_power", "relogin"}
Terminated == {"returned_err", "panicked", "aborted"}

\* Init as it would be if last_updated started at the time of the start
\* instead of 0
Init_ClockStartsNow ==
    /\ pc = "load_config"
    /\ client = "none"
    /\ init_login = "pending"
    /\ last_updated = 610
    /\ timestamp = 0
    /\ api_energy = -1
    /\ api_power = -1
    /\ status = NoStatus
    /\ last_iter = "none"
    /\ STATUS = NoStatus
    /\ committed = NoStatus
    /\ lock = 0
    /\ rpc = [r \in Readers |-> "idle"]
    /\ buf = [r \in Readers |-> NoStatus]
    /\ main_pc = "select"
    /\ main_result = "none"
    /\ branch = "none"
    /\ server = "running"
    /\ notified = FALSE

Init ==
    /\ pc = "load_config"
    /\ client = "none"
    /\ init_login = "pending"
    /\ last_updated = 0
    /\ timestamp = 0
    /\ api_energy = -1
    /\ api_power = -1
    /\ status = NoStatus
    /\ last_iter = "none"
    /\ STATUS = NoStatus
    /\ committed = NoStatus
    /\ lock = 0
    /\ rpc = [r \in Readers |-> "idle"]
    /\ buf = [r \in Readers |-> NoStatus]
    /\ main_pc = "select"
    /\ main_result = "none"
    /\ branch = "none"
    /\ server = "running"
    /\ notified = FALSE

\* ------------------------------------------------------------ update_loop
\* load_config().await? and ClientBuilder::build()?
LoadConfig(ok) ==
    /\ pc = "load_config"
    /\ IF ok
         THEN pc' = "login" /\ client' = "held"
         ELSE pc' = "returned_err" /\ client' = "none"
    /\ UNCHANGED <<init_login, last_updated, timestamp, api_energy, api_power,
                   status, last_iter>>
    /\ UNCHANGED <<cacheVars, readerVars, mainVars>>

\* login(&config, &client).await? at start
Login(resp) ==
    /\ pc = "login"
    /\ init_login' = resp
    /\ IF LoginResult(resp) = "Ok"
         THEN pc' = "sleep" /\ client' = client
         ELSE pc' = "returned_err" /\ client' = "dropped_by_poller"
    /\ UNCHANGED <<last_updated, timestamp, api_energy, api_power, status, last_iter>>
    /\ UNCHANGED <<cacheVars, readerVars, mainVars>>

\* sleep(10 s), sample the clock, timestamp - last_updated < POLL_INTERVAL
Tick(t) ==
    /\ pc = "sleep"
    /\ t >= last_updated
    /\ timestamp' = t
    /\ api_energy' = -1
    /\ api_power' = -1
    /\ IF t - last_updated < POLL_INTERVAL
         THEN pc' = "sleep" /\ last_iter' = "skipped"
         ELSE pc' = "update_energy" /\ last_iter' = last_iter
    /\ UNCHANGED <<client, init_login, last_updated, status>>
    /\ UNCHANGED <<cacheVars, readerVars, mainVars>>

\* the same tick when the sample is below last_updated and the build wraps
TickWrap(t) ==
    /\ pc = "sleep"
    /\ t < last_updated
    /\ timestamp' = t
    /\ api_energy' = -1
    /\ api_power' = -1
    /\ IF WrappedLess(t, last_updated, POLL_INTERVAL)
         THEN pc' = "sleep" /\ last_iter' = "skipped"
         ELSE pc' = "update_energy" /\ last_iter' = last_iter
    /\ UNCHANGED <<client, init_login, last_updated, status>>
    /\ UNCHANGED <<cacheVars, readerVars, mainVars>>

\* the same tick when the build checks overflow: the subtraction panics
TickPanic(t) ==
    /\ pc = "sleep"
    /\ t < last_updated
    /\ timestamp' = t
    /\ pc' = "panicked"
    /\ client' = "dropped_by_poller"
    /\ UNCHANGED <<init_login, last_updated, api_energy, api_power, status, last_iter>>
    /\ UNCHANGED <<cacheVars, readerVars, mainVars>>

\* UpdateFailed as it would be if a failed cycle also advanced last_updated
UpdateFailed_AdvancesClock(resp) ==
    /\ IF ErrStatus(resp) = UNAUTHORIZED
         THEN pc' = "relogin" /\ last_iter' = "unauthorized"
         ELSE pc' = "sleep" /\ last_iter' = "failed"
    /\ api_energy' = -1
    /\ api_power' = -1
    /\ last_updated' = timestamp
    /\ UNCHANGED <<client, init_login, timestamp, status>>

\* UpdateFailed as it would be if every error led to a new login
UpdateFailed_AlwaysRelogin(resp) ==
    /\ pc' = "relogin"
    /\ last_iter' = "unauthorized"
    /\ api_energy' = -1
    /\ api_power' = -1
    /\ UNCHANGED <<client, init_login, last_updated, timestamp, status>>

\* the Err arms of the match on update(..).await
UpdateFailed(resp) ==
    /\ IF ErrStatus(resp) = UNAUTHORIZED
         THEN pc' = "relogin" /\ last_iter' = "unauthorized"
         ELSE pc' = "sleep" /\ last_iter' = "failed"
    /\ api_energy' = -1
    /\ api_power' = -1
    /\ UNCHANGED <<client, init_login, last_updated, timestamp, status>>

\* UpdateEnergy as it would be if a failed energy fetch were ignored and the
\* power fetch went ahead
UpdateEnergy_IgnoresFailure(resp) ==
    /\ pc = "update_energy"
    /\ api_energy' = IF resp.kind = "ok" THEN resp.value ELSE api_energy
    /\ pc' = "update_power"
    /\ UNCHANGED <<client, init_login, last_updated, timestamp, status, last_iter>>
    /\ UNCHANGED api_power
    /\ UNCHANGED <<cacheVars, readerVars, mainVars>>

\* UpdateEnergy as it would be if a failed fetch emptied the cache
UpdateEnergy_ClearsOnFailure(resp) ==
    /\ pc = "update_energy"
    /\ IF resp.kind = "ok"
         THEN /\ api_energy' = resp.value
              /\ api_power' = api_power
              /\ pc' = "update_power"
              /\ UNCHANGED <<client, init_login, last_updated, timestamp, status, last_iter>>
              /\ UNCHANGED <<STATUS, committed>>
         ELSE /\ UpdateFailed(resp)
              /\ STATUS' = NoStatus
              /\ committed' = NoStatus
    /\ UNCHANGED <<lock, readerVars, mainVars>>

\* update(): GET energy, error_for_status, json; an error ends update()
UpdateEnergy(resp) ==
    /\ pc = "update_energy"
    /\ IF resp.kind = "ok"
         THEN /\ api_energy' = resp.value
              /\ api_power' = api_power
              /\ pc' = "update_power"
              /\ UNCHANGED <<client, init_login, last_updated, timestamp, status, last_iter>>
         ELSE UpdateFailed(resp)
    /\ UNCHANGED <<cacheVars, readerVars, mainVars>>

\* UpdatePower as it would be if update() were handed last_updated instead
\* of the timestamp of the tick
UpdatePower_StaleTimestamp(resp) ==
    /\ pc = "update_power"
    /\ IF resp.kind = "ok"
         THEN /\ api_power' = resp.value
              /\ api_energy' = api_energy
              /\ status' = MkStatus(resp.value, api_energy, last_updated)
              /\ last_updated' = timestamp
              /\ last_iter' = "updated"
              /\ pc' = "lock"
              /\ UNCHANGED <<client, init_login, timestamp>>
         ELSE UpdateFailed(resp)
    /\ UNCHANGED <<cacheVars, readerVars, mainVars>>

\* update(): GET power, error_for_status, json, Ok(Status {..});
\* then last_updated = timestamp in update_loop
UpdatePower(resp) ==
    /\ pc = "update_power"
    /\ IF resp.kind = "ok"
         THEN /\ api_power' = resp.value
              /\ api_energy' = api_energy
              /\ status' = MkStatus(resp.value, api_energy, timestamp)
              /\ last_updated' = timestamp
              /\ last_iter' = "updated"
              /\ pc' = "lock"
              /\ UNCHANGED <<client, init_login, timestamp>>
         ELSE UpdateFailed(resp)
    /\ UNCHANGED <<cacheVars, readerVars, mainVars>>

\* Relogin as it would be if the updater gave up after any new login
Relogin_GivesUp(resp) ==
    /\ pc = "relogin"
    /\ pc' = "returned_err"
    /\ client' = "dropped_by_poller"
    /\ last_iter' = "relogin_failed"
    /\ UNCHANGED <<init_login, last_updated, timestamp, api_energy, api_power, status>>
    /\ UNCHANGED <<cacheVars, readerVars, mainVars>>

\* login(&config, &client).await? after an unauthorized update
Relogin(resp) ==
    /\ pc = "relogin"
    /\ IF LoginResult(resp) = "Ok"
         THEN pc' = "sleep" /\ client' = client /\ last_iter' = "relogged"
         ELSE pc' = "returned_err" /\ client' = "dropped_by_poller"
                /\ last_iter' = "relogin_failed"
    /\ UNCHANGED <<init_login, last_updated, timestamp, api_energy, api_power, status>>
    /\ UNCHANGED <<cacheVars, readerVars, mainVars>>

\* STATUS.lock()
UpdaterLock ==
    /\ pc = "lock"
    /\ lock = 0
    /\ lock' = -1
    /\ pc' = "replace_current_w"
    /\ UNCHANGED <<client, init_login, last_updated, timestamp, api_energy,
                   api_power, status, last_iter>>
    /\ UNCHANGED <<STATUS, committed, readerVars, mainVars>>

\* status_guard.replace(status): the store of the first field
ReplaceCurrentW ==
    /\ pc = "replace_current_w"
    /\ STATUS' = [STATUS EXCEPT !.current_w = status.current_w]
    /\ pc' = "replace_total_kwh"
    /\ UNCHANGED <<client, init_login, last_updated, timestamp, api_energy,
                   api_power, status, last_iter>>
    /\ UNCHANGED <<committed, lock, readerVars, mainVars>>

\* status_guard.replace(status): the store of the second field
ReplaceTotalKwh ==
    /\ pc = "replace_total_kwh"
    /\ STATUS' = [STATUS EXCEPT !.total_kwh = status.total_kwh]
    /\ pc' = "replace_last_updated"
    /\ UNCHANGED <<client, init_login, last_updated, timestamp, api_energy,
                   api_power, status, last_iter>>
    /\ UNCHANGED <<committed, lock, readerVars, mainVars>>

\* ReplaceLastUpdated as it would be if a reading already present kept its
\* last_updated field
ReplaceLastUpdated_KeepsOld ==
    /\ pc = "replace_last_updated"
    /\ STATUS' = IF STATUS.some
                   THEN STATUS
                   ELSE [STATUS EXCEPT !.last_updated = status.last_updated, !.some = TRUE]
    /\ committed' = STATUS'
    /\ lock' = 0
    /\ pc' = "sleep"
    /\ api_energy' = -1
    /\ api_power' = -1
    /\ UNCHANGED <<client, init_login, last_updated, timestamp, status, last_iter>>
    /\ UNCHANGED <<readerVars, mainVars>>

\* ReplaceLastUpdated as it would be if the guard outlived the iteration and
\* was still held in the sleep that follows
ReplaceLastUpdated_KeepsGuard ==
    /\ pc = "replace_last_updated"
    /\ STATUS' = [STATUS EXCEPT !.last_updated = status.last_updated, !.some = TRUE]
    /\ committed' = STATUS'
    /\ lock' = lock
    /\ pc' = "sleep"
    /\ api_energy' = -1
    /\ api_power' = -1
    /\ UNCHANGED <<client, init_login, last_updated, timestamp, status, last_iter>>
    /\ UNCHANGED <<readerVars, mainVars>>

\* status_guard.replace(status): the store of the last field and of the
\* Some tag; the guard is dropped at the end of the iteration
ReplaceLastUpdated ==
    /\ pc = "replace_last_updated"
    /\ STATUS' = [STATUS EXCEPT !.last_updated = status.last_updated, !.some = TRUE]
    /\ committed' = STATUS'
    /\ lock' = 0
    /\ pc' = "sleep"
    /\ api_energy' = -1
    /\ api_power' = -1
    /\ UNCHANGED <<client, init_login, last_updated, timestamp, status, last_iter>>
    /\ UNCHANGED <<readerVars, mainVars>>

\* ---------------------------------------------------------------- status()
\* a GET / arrives while the server runs
StatusRequest(r) ==
    /\ server = "running"
    /\ rpc[r] = "idle"
    /\ rpc' = [rpc EXCEPT ![r] = "lock"]
    /\ UNCHANGED <<buf, pollerVars, cacheVars, mainVars>>

\* StatusLock as it would be if the handler read STATUS without the mutex
StatusLock_NoExclusion(r) ==
    /\ rpc[r] = "lock"
    /\ lock' = lock
    /\ rpc' = [rpc EXCEPT ![r] = "copy_current_w"]
    /\ UNCHANGED <<buf, STATUS, committed, pollerVars, mainVars>>

\* STATUS.lock()
StatusLock(r) ==
    /\ rpc[r] = "lock"
    /\ lock = 0
    /\ lock' = r
    /\ rpc' = [rpc EXCEPT ![r] = "copy_current_w"]
    /\ UNCHANGED <<buf, STATUS, committed, pollerVars, mainVars>>

\* status_guard.map(..): the copy of the tag and the first field
StatusCopyCurrentW(r) ==
    /\ rpc[r] = "copy_current_w"
    /\ buf' = [buf EXCEPT ![r].some = STATUS.some, ![r].current_w = STATUS.current_w]
    /\ rpc' = [rpc EXCEPT ![r] = "copy_total_kwh"]
    /\ UNCHANGED <<pollerVars, cacheVars, mainVars>>

\* status_guard.map(..): the copy of the second field
StatusCopyTotalKwh(r) ==
    /\ rpc[r] = "copy_total_kwh"
    /\ buf' = [buf EXCEPT ![r].total_kwh = STATUS.total_kwh]
    /\ rpc' = [rpc EXCEPT ![r] = "copy_last_updated"]
    /\ UNCHANGED <<pollerVars, cacheVars, mainVars>>

\* status_guard.map(..): the copy of the last field
StatusCopyLastUpdated(r) ==
    /\ rpc[r] = "copy_last_updated"
    /\ buf' = [buf EXCEPT ![r].last_updated = STATUS.last_updated]
    /\ rpc' = [rpc EXCEPT ![r] = "ret"]
    /\ UNCHANGED <<pollerVars, cacheVars, mainVars>>

\* the handler returns its copy; the guard is dropped
StatusReturn(r) ==
    /\ rpc[r] = "ret"
    /\ lock' = 0
    /\ rpc' = [rpc EXCEPT ![r] = "idle"]
    /\ buf' = [buf EXCEPT ![r] = NoStatus]
    /\ UNCHANGED <<STATUS, committed, pollerVars, mainVars>>

\* -------------------------------------------------------------------- main
\* select!: rocket.launch() completes first; result?; Ok(())
LaunchReturns(res) ==
    /\ main_pc = "select"
    /\ server = "running"
    /\ server' = "returned"
    /\ main_result' = res
    /\ branch' = "launch"
    /\ main_pc' = "returned"
    /\ UNCHANGED <<notified, pollerVars, cacheVars, readerVars>>

\* select!: the updater's JoinHandle completes first; the launch future is
\* dropped by select!, then shutdown.notify(); result??
UpdaterReturns ==
    /\ main_pc = "select"
    /\ pc \in {"returned_err", "panicked"}
    /\ server = "running"
    /\ server' = "dropped"
    /\ notified' = TRUE
    /\ main_result' = "Err"
    /\ branch' = "updater"
    /\ main_pc' = "returned"
    /\ UNCHANGED <<pollerVars, cacheVars, readerVars>>

\* main has returned and the runtime is dropped: a task that is still
\* running is dropped at the await it is suspended in
RuntimeDrop ==
    /\ main_pc = "returned"
    /\ pc \in Suspended
    /\ pc' = "aborted"
    /\ client' = IF client = "held" THEN "dropped_by_runtime" ELSE client
    /\ UNCHANGED <<init_login, last_updated, timestamp, api_energy, api_power,
                   status, last_iter>>
    /\ UNCHANGED <<cacheVars, readerVars, mainVars>>

Next ==
    \/ \E ok \in BOOLEAN : LoadConfig(ok)
    \/ \E resp \in LoginResponses : Login(resp)
    \/ \E t \in Times : Tick(t)
    \/ \E t \in Times : TickWrap(t)
    \/ \E t \in Times : TickPanic(t)
    \/ \E resp \in Responses : UpdateEnergy(resp)
    \/ \E resp \in Responses : UpdatePower(resp)
    \/ \E resp \in LoginResponses : Relogin(resp)
    \/ UpdaterLock
    \/ ReplaceCurrentW
    \/ ReplaceTotalKwh
    \/ ReplaceLastUpdated
    \/ \E r \in Readers : StatusRequest(r)
    \/ \E r \in Readers : StatusLock(r)
    \/ \E r \in Readers : StatusCopyCurrentW(r)
    \/ \E r \in Readers : StatusCopyTotalKwh(r)
    \/ \E r \in Readers : StatusCopyLastUpdated(r)
    \/ \E r \in Readers : StatusReturn(r)
    \/ \E res \in {"Ok", "Err"} : LaunchReturns(res)
    \/ UpdaterReturns
    \/ RuntimeDrop

Spec == Init /\ [][Next]_vars

\* Code between two awaits runs to its end: a task that holds the mutex is
\* on a thread and finishes its copy or store.
CriticalSectionsEnd ==
    /\ WF_vars(ReplaceCurrentW \/ ReplaceTotalKwh \/ ReplaceLastUpdated)
    /\ \A r \in Readers :
          WF_vars(StatusCopyCurrentW(r) \/ StatusCopyTotalKwh(r)
                    \/ StatusCopyLastUpdated(r) \/ StatusReturn(r))

\* Mutex::lock(): a thread blocked in lock() gets the mutex if it is
\* released again and again.
LockIsGranted ==
    /\ SF_vars(UpdaterLock)
    /\ \A r \in Readers : SF_vars(StatusLock(r))

\* The program with the scheduling of its threads and of the mutex.
SpecFairLock == Spec /\ CriticalSectionsEnd /\ LockIsGranted

\* Awaited calls end: the configuration load, the sleep and every network
\* call return (the sleep ends with a tick whose clock sample is far enough
\* from last_updated if such a sample exists).
AwaitsEnd ==
    /\ WF_vars(\E ok \in BOOLEAN : LoadConfig(ok))
    /\ WF_vars(\E resp \in LoginResponses : Login(resp))
    /\ WF_vars(\E resp \in LoginResponses : Relogin(resp))
    /\ WF_vars(\E t \in Times : (Tick(t) \/ TickWrap(t)) /\ pc' = "update_energy")

\* The remote answers a fetch that is tried again and again successfully
\* at some time.
RemoteAnswers ==
    /\ SF_vars(\E resp \in Responses : resp.kind = "ok" /\ UpdateEnergy(resp))
    /\ SF_vars(\E resp \in Responses : resp.kind = "ok" /\ UpdatePower(resp))

\* The program with fair threads and mutex and a remote that answers.
SpecFairRemote == SpecFairLock /\ AwaitsEnd /\ RemoteAnswers

\* ================================================================ claims
WriteStates == {"lock", "replace_current_w", "replace_total_kwh", "replace_last_updated"}
ReplaceStates == {"replace_current_w", "replace_total_kwh", "replace_last_updated"}

\* Responses the source classifies neither as success nor as unauthorized.
TransientResponses ==
    {resp \in Responses : resp.kind # "ok" /\ ~(resp.kind = "http" /\ resp.code = UNAUTHORIZED)}
UnauthorizedResponses ==
    {resp \in Responses : resp.kind = "http" /\ resp.code = UNAUTHORIZED}

\* A tick of the loop whose clock sample is t.
TickAt(t) == Tick(t) \/ TickWrap(t) \/ TickPanic(t)

\* C1: whenever the updater is not between a successful update() and the end
\* of the store that follows it, STATUS holds exactly the value the most
\* recent successful update() returned (None before the first success),
\* whatever failed or unauthorized cycles came in between.
C1_CacheIsLatestReading ==
    pc \notin WriteStates => STATUS = status

\* C1 witness: a reading is cached, a later cycle has failed, and the cache
\* still holds that reading.
C1_Witness ==
    /\ pc = "sleep"
    /\ last_iter = "failed"
    /\ STATUS.some
    /\ STATUS.current_w = MaxValue
    /\ STATUS.last_updated = 300
    /\ timestamp = 610

\* C2: the copy a status() request returns is the value that was last stored
\* completely into STATUS: all of its fields are from one update, also when
\* the updater is waiting to store or other requests are in flight.
C2_ReadsAreWhole ==
    \A r \in Readers : rpc[r] = "ret" => buf[r] = committed

\* C2 witness: a request returns a cached reading while the updater waits for
\* the mutex with a different reading and another request waits as well.
C2_Witness ==
    \E r \in Readers : \E q \in Readers :
        /\ rpc[r] = "ret"
        /\ buf[r].some
        /\ rpc[q] = "lock"
        /\ pc = "lock"
        /\ status.current_w # buf[r].current_w
        /\ status.total_kwh # buf[r].total_kwh

\* C3: a cycle that fails with a transport error, a non-401 error status or
\* a malformed (unparseable or negative) value leaves STATUS and
\* last_updated as they were and puts the updater back to sleep; and the
\* tick that follows such a cycle starts a fetch again, given that the clock
\* did not run backwards (last_updated <= failed sample <= next sample).
C3_TransientFailure ==
    [][ /\ \A resp \in TransientResponses :
              (UpdateEnergy(resp) \/ UpdatePower(resp))
                  => /\ STATUS' = STATUS
                     /\ last_updated' = last_updated
                     /\ pc' = "sleep"
        /\ \A t \in Times :
              (/\ pc = "sleep"
               /\ last_iter = "failed"
               /\ last_updated <= timestamp
               /\ timestamp <= t
               /\ TickAt(t))
                  => pc' = "update_energy"
      ]_vars

\* C3 witness: the updater sleeps after a failed cycle that followed a
\* successful one.
C3_Witness ==
    /\ pc = "sleep"
    /\ last_iter = "failed"
    /\ STATUS.some
    /\ last_updated = 10
    /\ timestamp = 610

\* C4: STATUS is stored into only by the updater's replace, and then both
\* values of the stored reading were fetched in the cycle that stores it;
\* a cycle in which either fetch fails builds no reading and never reaches
\* the store.
C4_BothFetchesOrNoWrite ==
    [][ /\ STATUS' # STATUS
              => /\ pc \in ReplaceStates
                 /\ api_energy \in Values
                 /\ api_power \in Values
                 /\ status = [some |-> TRUE, current_w |-> api_power,
                              total_kwh |-> api_energy, last_updated |-> timestamp]
        /\ \A resp \in Responses :
              (resp.kind # "ok" /\ (UpdateEnergy(resp) \/ UpdatePower(resp)))
                  => /\ pc' \notin WriteStates
                     /\ status' = status
                     /\ STATUS' = STATUS
      ]_vars

\* C4 witness: the store of a reading is under way, both values fetched.
C4_Witness ==
    /\ pc = "replace_total_kwh"
    /\ api_energy = MaxValue
    /\ api_power = 0
    /\ STATUS.some

\* C5: a 401 on either fetch sends the updater to a new login without
\* touching last_updated; when that login succeeds the updater is back in
\* its loop with its client, last_updated still untouched, and the tick that
\* follows starts a fetch, given that the clock did not run backwards.
C5_ReloginResumes ==
    [][ /\ \A resp \in UnauthorizedResponses :
              (UpdateEnergy(resp) \/ UpdatePower(resp))
                  => /\ pc' = "relogin"
                     /\ last_updated' = last_updated
        /\ Relogin("ok")
              => /\ pc' = "sleep"
                 /\ client' = "held"
                 /\ last_updated' = last_updated
        /\ \A t \in Times :
              (/\ pc = "sleep"
               /\ last_iter = "relogged"
               /\ last_updated <= timestamp
               /\ timestamp <= t
               /\ TickAt(t))
                  => pc' = "update_energy"
      ]_vars

\* C5 witness: a fetch cycle has started after a successful new login.
C5_Witness ==
    /\ pc = "update_energy"
    /\ last_iter = "relogged"
    /\ client = "held"

\* C6 (as claimed): a login that fails after an unauthorized update does not
\* end the updater task and gives main no error.
C6_ReloginFailureIsTransient ==
    last_iter = "relogin_failed" => (pc \notin Terminated /\ main_result # "Err")

\* C7 (as claimed): when the login at start is answered with a transport
\* error or a rejection, the updater task has ended with an error and never
\* entered its loop.
C7_InitialLoginFailureIsFatal ==
    init_login \in {"rejected", "transport"} => pc = "returned_err"

\* C8 (as claimed): when main has returned because rocket.launch() returned,
\* the updater task has ended by itself.
C8_UpdaterStoppedBeforeMainReturns ==
    (main_pc = "returned" /\ branch = "launch") => pc \in {"returned_err", "panicked"}

\* C9 (as claimed): when main has returned because the updater task ended,
\* the shutdown handle was notified and rocket.launch() has returned.
C9_ServerTerminatedBeforeMainReturns ==
    (main_pc = "returned" /\ branch = "updater") => (notified /\ server = "returned")

\* C10 (as claimed): once the server has terminated, which is the one event
\* that asks the updater to stop, a sleeping updater starts no fetch at its
\* next tick.
C10_NoFetchAfterShutdown ==
    [][ (server = "returned" /\ pc = "sleep") => pc' # "update_energy" ]_vars

\* C11 (as claimed): an updater that is suspended in a network call of
\* update() or of the new login is never stopped there: its next step is
\* the answer to that call.
C11_InFlightCycleFinishes ==
    [][ (pc \in {"update_energy", "update_power", "relogin"}) => (pc' # "aborted") ]_vars

\* C12 (as claimed): whenever the updater has stopped, its client (the
\* session) was released by the updater itself, never by the runtime
\* dropping the task that still held it.
C12_SessionReleasedByUpdater ==
    pc \in Terminated => client \in {"none", "dropped_by_poller"}

\* C13: the copy a status() request returns is absent exactly when no
\* reading has been stored yet, and otherwise is the reading of the last
\* successful update(): it equals update_loop's last status, or, while the
\* updater waits for the mutex with a fresh reading, the reading stored
\* before.  No step ever empties STATUS, and a failed fetch, a new login
\* (failed or not) and a panicking tick leave STATUS as it is.
C13_ReadIsLastGoodReading ==
    /\ [](\A r \in Readers :
            rpc[r] = "ret"
                => /\ buf[r].some = STATUS.some
                   /\ IF pc \in WriteStates
                        THEN pc = "lock" /\ buf[r] = STATUS
                        ELSE buf[r] = status)
    /\ [][ /\ STATUS.some => STATUS'.some
           /\ \A resp \in Responses :
                 (resp.kind # "ok" /\ (UpdateEnergy(resp) \/ UpdatePower(resp)))
                     => STATUS' = STATUS
           /\ \A resp \in LoginResponses : Relogin(resp) => STATUS' = STATUS
           /\ \A t \in Times : TickPanic(t) => STATUS' = STATUS
         ]_vars

\* C13 witness: a request returns the cached reading after the updater task
\* ended on a failed new login.
C13_Witness ==
    \E r \in Readers :
        /\ rpc[r] = "ret"
        /\ buf[r].some
        /\ buf[r].last_updated = 610
        /\ last_iter = "relogin_failed"
        /\ pc = "returned_err"

\* C14: the mutex is never held by a party that is suspended: not by the
\* updater while it sleeps, is in a network call or has ended, and not by a
\* request handler that is not running; hence every lock() of a request and
\* of the updater is granted.
C14_LockNeverHeldWhenSuspended ==
    /\ []((pc \in Suspended \cup Terminated) => lock # -1)
    /\ [](\A r \in Readers : rpc[r] \in {"idle", "lock"} => lock # r)
    /\ \A r \in Readers : (rpc[r] = "lock") ~> (rpc[r] = "copy_current_w")
    /\ (pc = "lock") ~> (pc = "replace_current_w")

\* C14 witness: the updater is in a network call while one request holds
\* the mutex and another one waits for it.
C14_Witness ==
    \E r \in Readers : \E q \in Readers :
        /\ pc = "update_power"
        /\ STATUS.some
        /\ lock = r
        /\ rpc[r] = "copy_total_kwh"
        /\ rpc[q] = "lock"

LoopStates == {"sleep", "update_energy", "update_power", "relogin"}

\* C15 (as claimed): a tick starts a fetch only when its sample minus
\* last_updated is at least POLL_INTERVAL, and a reading that replaces a
\* cached one has a last_updated at least POLL_INTERVAL above it.
C15_FetchOnlyAfterInterval ==
    [][ /\ (pc = "sleep" /\ pc' = "update_energy")
              => timestamp' - last_updated >= POLL_INTERVAL
        /\ (pc = "replace_last_updated" /\ STATUS.some)
              => STATUS'.last_updated - STATUS.last_updated >= POLL_INTERVAL
      ]_vars

\* C16 (as claimed): last_updated changes only in a successful cycle and
\* never decreases, and no tick samples a clock value below last_updated
\* (the subtraction does not underflow: no wrap and no panic).
C16_PollClockMonotone ==
    [][ /\ last_updated' # last_updated
              => (last_iter' = "updated" /\ last_updated' >= last_updated)
        /\ pc' # "panicked"
        /\ \A t \in Times : TickAt(t) => t >= last_updated
      ]_vars

\* C17: the login at start is run once (its state is entered from the
\* configuration load only and left by its answer), and a new login is
\* started only by a fetch answered 401; a fetch that succeeds or fails in
\* any other way starts none.
C17_LoginOnlyOnUnauthorized ==
    [][ /\ pc' = "load_config" => pc = "load_config"
        /\ pc' = "login" => pc \in {"load_config", "login"}
        /\ \A resp \in LoginResponses : Login(resp) => pc' \notin {"login", "relogin"}
        /\ (pc' = "relogin" /\ pc # "relogin")
              => \E resp \in UnauthorizedResponses : UpdateEnergy(resp) \/ UpdatePower(resp)
        /\ \A resp \in Responses \ UnauthorizedResponses :
              (UpdateEnergy(resp) \/ UpdatePower(resp)) => pc' \notin {"login", "relogin"}
        /\ \A resp \in LoginResponses : Relogin(resp) => pc' \notin {"login", "relogin"}
      ]_vars

\* C17 witness: a new login is under way after a 401 that followed a
\* failed and a successful cycle.
C17_Witness ==
    /\ pc = "relogin"
    /\ last_iter = "unauthorized"
    /\ STATUS.some
    /\ init_login = "ok"
    /\ timestamp = 610
    /\ last_updated = 300

\* C18: while the updater is in its loop and not storing, last_updated and
\* STATUS agree: STATUS is None and last_updated is 0, or STATUS holds a
\* reading whose last_updated is last_updated.  While it stores, the
\* reading it stores carries the timestamp of the tick that started the
\* cycle, and last_updated was set to that same timestamp.
C18_PollClockMatchesCache ==
    /\ pc \in LoopStates
          => IF STATUS.some
               THEN STATUS.last_updated = last_updated
               ELSE last_updated = 0
    /\ pc \in WriteStates
          => /\ status.last_updated = timestamp
             /\ last_updated = timestamp

\* C18 witness: a second reading is cached and the updater sleeps after a
\* tick that came too early.
C18_Witness ==
    /\ pc = "sleep"
    /\ last_iter = "skipped"
    /\ STATUS.some
    /\ STATUS.total_kwh = MaxValue
    /\ last_updated = 610
    /\ timestamp = 610

\* C19: the login at start leaves last_updated at 0, so the first tick after
\* it starts a fetch whenever its clock sample is at least POLL_INTERVAL;
\* and with a remote that answers both fetches successfully at some time,
\* STATUS becomes present unless the updater task has ended before.
C19_FirstFetchAtFirstTick ==
    /\ [][ /\ \A resp \in LoginResponses :
                 (Login(resp) /\ pc' = "sleep") => (last_updated' = 0 /\ last_iter' = "none")
           /\ \A t \in Times :
                 (pc = "sleep" /\ last_iter = "none" /\ t >= POLL_INTERVAL /\ TickAt(t))
                     => pc' = "update_energy"
         ]_vars
    /\ <>(STATUS.some \/ pc \in Terminated)

\* C19 witness: the first reading is being stored in the cycle started by
\* the first tick after the login.
C19_Witness ==
    /\ pc = "replace_last_updated"
    /\ ~STATUS.some
    /\ last_iter = "updated"
    /\ timestamp = 300
    /\ init_login = "ok"

====
